---- MODULE Spec2Model ----
(***************************************************************************)
(* Agrilink farmer marketplace canister (icp_rust_boilerplate_backend).    *)
(* State: the id counter cell, the farmers map and the product-record map  *)
(* of lib.rs; one action per canister entry point.  The IC runs one        *)
(* message to completion before the next, so each entry point is one step. *)
(***************************************************************************)
EXTENDS Integers, Sequences, FiniteSets, TLC

\* ------------------------------------------------------------------ bounds
\* Number of add_product calls that may allocate an id.
MaxFarmers == 2
\* Number of canister calls in one run of Spec (every entry point).
MaxCalls == 4
\* Number of canister calls in one run of SettlementSpec (the entry points
\* of the sale: listing, bid, sale, dispute, escrow, release).
MaxSettlementCalls == 6
MaxLifecycleCalls == 5
\* Largest value of the balance type.  lib.rs uses u64; the width is scaled
\* down so that sums stay inside the model checker's integers, the wrap
\* point keeps its place above every single amount.
U64_MAX == 255

\* ------------------------------------------------------------------ values
\* Option<String>
None == <<>>
Some(x) == <<x>>

\* Result<T, String>; unit is "()".
Ok(v) == [ok |-> TRUE, val |-> v]
Err(msg) == [ok |-> FALSE, val |-> msg]
Unit == "()"

\* A panic inside an update call traps: the IC rejects the call and rolls
\* the canister state back.
Trap(msg) == [ok |-> FALSE, val |-> msg]

ValidPayload1 ==
    [address |-> "farm1", name |-> "asha", bio |-> "maize", category |-> "grain",
     price |-> 100, product_status |-> "Listed"]
ValidPayload2 ==
    [address |-> "farm2", name |-> "bo", bio |-> "beans", category |-> "pulse",
     price |-> 40, product_status |-> "Available"]
TextFields == {"address", "name", "bio", "category", "product_status"}

\* FarmerPayload values: two complete ones, and one with each text field empty.
FarmerPayloads ==
    {ValidPayload1, ValidPayload2}
        \cup {[ValidPayload1 EXCEPT ![f] = ""] : f \in TextFields}

FarmerIds == 0..MaxFarmers
ConsumerAddresses == {"", "alice", "bob"}
Amounts == {0, 100, U64_MAX}
Categories == {"fruit"}
Bios == {"organic"}
Prices == {250}
Statuses == {"Product Sold"}
Ratings == {5}

\* StableBTreeMap::get / insert
Get(map, key) == IF key \in DOMAIN map THEN Some(map[key]) ELSE None
Insert(map, key, value) ==
    [k \in DOMAIN map \cup {key} |-> IF k = key THEN value ELSE map[k]]

\* ------------------------------------------------------------------ state
VARIABLES
    ID_COUNTER,        \* Cell<u64>
    FARMERS_STORAGE,   \* StableBTreeMap<u64, Farmer>
    PRODUCTS_STORAGE,  \* StableBTreeMap<u64, ProductRecord>
    result,            \* the last call: [op, id, arg, ret]
    calls,             \* number of calls made
    succeeded,         \* farmer id -> names of the update calls that returned Ok on it
    product_inserts,   \* farmer id -> number of PRODUCTS_STORAGE.insert calls under it
    escrow_added,      \* farmer id -> sum of the amounts of the Ok add_to_escrow calls
    created,           \* farmer id -> the payload add_product stored it from
    round_trip         \* farmer id -> position in the round-trip call sequence

stores == <<ID_COUNTER, FARMERS_STORAGE, PRODUCTS_STORAGE>>
history == <<succeeded, product_inserts, escrow_added, created, round_trip>>
vars == <<ID_COUNTER, FARMERS_STORAGE, PRODUCTS_STORAGE, result, calls,
          succeeded, product_inserts, escrow_added, created, round_trip>>

Empty == [k \in {} |-> 0]

Init ==
    /\ ID_COUNTER = 0
    /\ FARMERS_STORAGE = Empty
    /\ PRODUCTS_STORAGE = Empty
    /\ result = [op |-> "init", id |-> 0, arg |-> Unit, ret |-> Ok(Unit)]
    /\ calls = 0
    /\ succeeded = Empty
    /\ product_inserts = Empty
    /\ escrow_added = Empty
    /\ created = Empty
    /\ round_trip = Empty

\* ------------------------------------------------------------------ add_product
\* The payload check of add_product: every text field non-empty.
payload_is_valid(payload) ==
    ~(\/ payload.address = ""
      \/ payload.name = ""
      \/ payload.bio = ""
      \/ payload.category = ""
      \/ payload.product_status = "")

\* Faulty variant: the new farmer's escrow starts at the asking price.
new_farmer_prefunded(id, payload) ==
    [id |-> id,
     address |-> payload.address,
     name |-> payload.name,
     bio |-> payload.bio,
     category |-> payload.category,
     price |-> payload.price,
     escrow_balance |-> payload.price,
     dispute_status |-> FALSE,
     rating |-> 0,
     product_status |-> payload.product_status,
     consumer_address |-> None,
     is_sold |-> FALSE]

\* The Farmer add_product builds.
new_farmer(id, payload) ==
    [id |-> id,
     address |-> payload.address,
     name |-> payload.name,
     bio |-> payload.bio,
     category |-> payload.category,
     price |-> payload.price,
     escrow_balance |-> 0,
     dispute_status |-> FALSE,
     rating |-> 0,
     product_status |-> payload.product_status,
     consumer_address |-> None,
     is_sold |-> FALSE]

\* Faulty variant: the counter is written back without the increment.
counter_after_stuck(current_value) == current_value

\* Cell::set stores the new value and returns the value it replaced, so the
\* id add_product uses is the counter's value before the increment.
allocated_id(current_value) == current_value
counter_after(current_value) == current_value + 1

\* Faulty variant: the id is allocated before the payload is validated.
add_product_allocates_first(payload) ==
    LET id == allocated_id(ID_COUNTER)
        farmer == new_farmer(id, payload)
    IN  IF ~payload_is_valid(payload)
        THEN [ret |-> Err("All fields must be provided and non-empty"),
              counter |-> counter_after(ID_COUNTER),
              farmers |-> FARMERS_STORAGE]
        ELSE [ret |-> Ok(farmer),
              counter |-> counter_after(ID_COUNTER),
              farmers |-> Insert(FARMERS_STORAGE, id, farmer)]

add_product(payload) ==
    IF ~payload_is_valid(payload)
    THEN [ret |-> Err("All fields must be provided and non-empty"),
          counter |-> ID_COUNTER,
          farmers |-> FARMERS_STORAGE]
    ELSE LET id == allocated_id(ID_COUNTER)
             farmer == new_farmer(id, payload)
         IN  [ret |-> Ok(farmer),
              counter |-> counter_after(ID_COUNTER),
              farmers |-> Insert(FARMERS_STORAGE, id, farmer)]

\* ------------------------------------------------------------------ handlers on one farmer
NotFound == Err("Farmer not found")
Refused(ret) == [ret |-> ret, farmers |-> FARMERS_STORAGE]
Stored(farmer_id, farmer) ==
    [ret |-> Ok(Unit), farmers |-> Insert(FARMERS_STORAGE, farmer_id, farmer)]

bid_address_is_valid(consumer_address) == consumer_address # ""
\* Faulty variant: a bid is taken whether or not one is stored.
bid_guard_always(farmer) == TRUE
bid_guard(farmer) == farmer.consumer_address = None
bid_effect(farmer, consumer_address) ==
    [farmer EXCEPT !.consumer_address = Some(consumer_address),
                   !.product_status = "Bid Placed"]

product_bid(payload) ==
    IF ~bid_address_is_valid(payload.consumer_address)
    THEN Refused(Err("Consumer address must be provided and non-empty"))
    ELSE LET found == Get(FARMERS_STORAGE, payload.farmer_id) IN
         IF found = None THEN Refused(NotFound)
         ELSE LET farmer == found[1] IN
              IF bid_guard(farmer)
              THEN Stored(payload.farmer_id, bid_effect(farmer, payload.consumer_address))
              ELSE Refused(Err("Product already has a bid placed"))

accept_guard(farmer) == farmer.consumer_address # None
\* Faulty variant: accepting consumes the stored bid.
accept_effect_takes_bid(farmer) ==
    [farmer EXCEPT !.product_status = "Bid Accepted", !.consumer_address = None]
accept_effect(farmer) == [farmer EXCEPT !.product_status = "Bid Accepted"]

\* Faulty variant: a missing farmer is reported as a missing bid.
accept_bid_unchecked(farmer_id) ==
    LET found == Get(FARMERS_STORAGE, farmer_id) IN
    IF found # None /\ accept_guard(found[1])
    THEN Stored(farmer_id, accept_effect(found[1]))
    ELSE Refused(Err("No bid placed on the product"))

accept_bid(farmer_id) ==
    LET found == Get(FARMERS_STORAGE, farmer_id) IN
    IF found = None THEN Refused(NotFound)
    ELSE LET farmer == found[1] IN
         IF accept_guard(farmer)
         THEN Stored(farmer_id, accept_effect(farmer))
         ELSE Refused(Err("No bid placed on the product"))

\* Faulty variant: a sale is recorded without any bid.
sold_guard_always(farmer) == TRUE
sold_guard(farmer) == farmer.consumer_address # None
sold_effect(farmer) ==
    [farmer EXCEPT !.is_sold = TRUE, !.product_status = "Product Sold"]

\* payload.consumer_address is not read.
mark_product_sold(payload) ==
    LET found == Get(FARMERS_STORAGE, payload.farmer_id) IN
    IF found = None THEN Refused(NotFound)
    ELSE LET farmer == found[1] IN
         IF sold_guard(farmer)
         THEN Stored(payload.farmer_id, sold_effect(farmer))
         ELSE Refused(Err("No consumer has placed a bid on the product"))

dispute_effect(farmer) ==
    [farmer EXCEPT !.dispute_status = TRUE, !.product_status = "Dispute Raised"]

dispute_product(farmer_id) ==
    LET found == Get(FARMERS_STORAGE, farmer_id) IN
    IF found = None THEN Refused(NotFound)
    ELSE Stored(farmer_id, dispute_effect(found[1]))

\* Faulty variant: a resolution is applied without an active dispute.
resolve_guard_always(farmer) == TRUE
resolve_guard(farmer) == farmer.dispute_status
\* Faulty variant: a resolution for the consumer empties the escrow.
resolve_effect_refunds(farmer, resolution) ==
    [farmer EXCEPT !.dispute_status = FALSE,
                   !.escrow_balance = IF resolution THEN @ ELSE 0,
                   !.product_status =
                       IF resolution THEN "Dispute Resolved - Funds to Farmer"
                       ELSE "Dispute Resolved - Funds to Consumer"]
resolve_effect(farmer, resolution) ==
    [farmer EXCEPT !.dispute_status = FALSE,
                   !.product_status =
                       IF resolution THEN "Dispute Resolved - Funds to Farmer"
                       ELSE "Dispute Resolved - Funds to Consumer"]

resolve_dispute(farmer_id, resolution) ==
    LET found == Get(FARMERS_STORAGE, farmer_id) IN
    IF found = None THEN Refused(NotFound)
    ELSE LET farmer == found[1] IN
         IF ~resolve_guard(farmer)
         THEN Refused(Err("No active dispute to resolve"))
         ELSE Stored(farmer_id, resolve_effect(farmer, resolution))

\* ------------------------------------------------------------------ release_payment
\* Faulty variant: an unsold product is released.
release_guard_ignores_sale(farmer) == ~farmer.dispute_status
\* Faulty variant: a resolution for the consumer blocks the release.
release_guard_honours_outcome(farmer) ==
    /\ farmer.is_sold
    /\ ~farmer.dispute_status
    /\ farmer.product_status # "Dispute Resolved - Funds to Consumer"
\* Faulty variant: the dispute flag is not consulted.
release_guard_ignores_dispute(farmer) == farmer.is_sold
release_guard(farmer) == farmer.is_sold /\ ~farmer.dispute_status
\* Faulty variant: the release reopens the sale.
release_effect_unsells(farmer) ==
    [farmer EXCEPT !.escrow_balance = 0, !.is_sold = FALSE]
release_effect(farmer) == [farmer EXCEPT !.escrow_balance = 0]
\* Faulty variant: the record carries the consumer's address.
product_record_of_consumer(farmer) ==
    [id |-> farmer.id, farmer_address |-> farmer.consumer_address[1]]
product_record(farmer) == [id |-> farmer.id, farmer_address |-> farmer.address]

\* inserted: the keys PRODUCTS_STORAGE.insert was called with.
release_payment(farmer_id) ==
    LET found == Get(FARMERS_STORAGE, farmer_id) IN
    IF found = None
    THEN [ret |-> NotFound, farmers |-> FARMERS_STORAGE,
          products |-> PRODUCTS_STORAGE, inserted |-> {}]
    ELSE LET farmer == found[1] IN
         IF release_guard(farmer)
         THEN LET released == release_effect(farmer) IN
              [ret |-> Ok(Unit),
               farmers |-> Insert(FARMERS_STORAGE, farmer_id, released),
               products |-> Insert(PRODUCTS_STORAGE, released.id, product_record(released)),
               inserted |-> {released.id}]
         ELSE [ret |-> Err("Product is not sold or has an unresolved dispute"),
               farmers |-> FARMERS_STORAGE,
               products |-> PRODUCTS_STORAGE, inserted |-> {}]

\* ------------------------------------------------------------------ escrow
\* `escrow_balance += amount` on u64.  Past the maximum the build decides:
\* with overflow checks the call panics, without them the sum wraps.
add_overflows(balance, amount) == balance + amount > U64_MAX
wrapping_add(balance, amount) == (balance + amount) % (U64_MAX + 1)

\* The set of outcomes of add_to_escrow.
add_to_escrow(farmer_id, amount) ==
    LET found == Get(FARMERS_STORAGE, farmer_id) IN
    IF found = None THEN {Refused(NotFound)}
    ELSE LET farmer == found[1]
             sum == wrapping_add(farmer.escrow_balance, amount)
             added == Stored(farmer_id, [farmer EXCEPT !.escrow_balance = sum])
         IN  IF add_overflows(farmer.escrow_balance, amount)
             THEN {Refused(Trap("attempt to add with overflow")), added}
             ELSE {added}

\* Faulty variant: the balance is not compared with the amount.
withdraw_guard_always(farmer, amount) == TRUE
withdraw_guard(farmer, amount) == farmer.escrow_balance >= amount
withdraw_effect(farmer, amount) ==
    [farmer EXCEPT !.escrow_balance = farmer.escrow_balance - amount]

withdraw_from_escrow(payload) ==
    LET found == Get(FARMERS_STORAGE, payload.farmer_id) IN
    IF found = None THEN Refused(NotFound)
    ELSE LET farmer == found[1] IN
         IF withdraw_guard(farmer, payload.amount)
         THEN Stored(payload.farmer_id, withdraw_effect(farmer, payload.amount))
         ELSE Refused(Err("Insufficient funds in escrow"))

\* ------------------------------------------------------------------ field updates
\* Faulty variant: the category is written into bio.
update_product_category_writes_bio(farmer_id, category) ==
    LET found == Get(FARMERS_STORAGE, farmer_id) IN
    IF found # None
    THEN Stored(farmer_id, [found[1] EXCEPT !.bio = category])
    ELSE Refused(NotFound)

update_product_category(farmer_id, category) ==
    LET found == Get(FARMERS_STORAGE, farmer_id) IN
    IF found # None
    THEN Stored(farmer_id, [found[1] EXCEPT !.category = category])
    ELSE Refused(NotFound)

update_product_description(farmer_id, bio) ==
    LET found == Get(FARMERS_STORAGE, farmer_id) IN
    IF found # None
    THEN Stored(farmer_id, [found[1] EXCEPT !.bio = bio])
    ELSE Refused(NotFound)

update_product_price(farmer_id, price) ==
    LET found == Get(FARMERS_STORAGE, farmer_id) IN
    IF found # None
    THEN Stored(farmer_id, [found[1] EXCEPT !.price = price])
    ELSE Refused(NotFound)

update_product_status(farmer_id, status) ==
    LET found == Get(FARMERS_STORAGE, farmer_id) IN
    IF found # None
    THEN Stored(farmer_id, [found[1] EXCEPT !.product_status = status])
    ELSE Refused(NotFound)

rate_farmer(farmer_id, rating) ==
    LET found == Get(FARMERS_STORAGE, farmer_id) IN
    IF found = None THEN Refused(NotFound)
    ELSE Stored(farmer_id, [found[1] EXCEPT !.rating = rating])

\* ------------------------------------------------------------------ queries
get_product_description(farmer_id) ==
    LET found == Get(FARMERS_STORAGE, farmer_id) IN
    IF found = None THEN NotFound ELSE Ok(found[1].bio)

get_product_price(farmer_id) ==
    LET found == Get(FARMERS_STORAGE, farmer_id) IN
    IF found = None THEN NotFound ELSE Ok(found[1].price)

get_product_status(farmer_id) ==
    LET found == Get(FARMERS_STORAGE, farmer_id) IN
    IF found = None THEN NotFound ELSE Ok(found[1].product_status)

\* ------------------------------------------------------------------ bookkeeping
\* The call sequence product_bid("alice"), accept_bid, mark_product_sold,
\* add_to_escrow(100), release_payment on a farmer created with price 100:
\* where the farmer stands in it after an update call addressed to it.
round_trip_next(position, op, arg, ok) ==
    LET step(expected) == IF ok THEN expected ELSE "failed" IN
    CASE position = "failed" -> "failed"
      [] position = "created" /\ op = "product_bid" /\ arg = "alice" -> step("bid")
      [] position = "bid" /\ op = "accept_bid" -> step("accepted")
      [] position = "accepted" /\ op = "mark_product_sold" -> step("sold")
      [] position = "sold" /\ op = "add_to_escrow" /\ arg = 100 -> step("funded")
      [] position = "funded" /\ op = "release_payment" -> step("released")
      [] OTHER -> "off"

Called(limit, op, id, arg, ret) ==
    /\ calls < limit
    /\ calls' = calls + 1
    /\ result' = [op |-> op, id |-> id, arg |-> arg, ret |-> ret]

\* Bookkeeping of an update call addressed to farmer id.
Noted(op, id, arg, ret, inserted) ==
    /\ succeeded' =
        IF ret.ok /\ id \in DOMAIN succeeded
        THEN [succeeded EXCEPT ![id] = @ \cup {op}] ELSE succeeded
    /\ escrow_added' =
        IF ret.ok /\ op = "add_to_escrow" /\ id \in DOMAIN escrow_added
        THEN [escrow_added EXCEPT ![id] = @ + arg] ELSE escrow_added
    /\ product_inserts' =
        [k \in DOMAIN product_inserts \cup inserted |->
            (IF k \in DOMAIN product_inserts THEN product_inserts[k] ELSE 0)
            + (IF k \in inserted THEN 1 ELSE 0)]
    /\ round_trip' =
        IF id \in DOMAIN round_trip
        THEN [round_trip EXCEPT ![id] = round_trip_next(@, op, arg, ret.ok)]
        ELSE round_trip
    /\ created' = created

\* An update call that touches FARMERS_STORAGE only.
Update(limit, op, id, arg, out) ==
    /\ Called(limit, op, id, arg, out.ret)
    /\ FARMERS_STORAGE' = out.farmers
    /\ UNCHANGED <<ID_COUNTER, PRODUCTS_STORAGE>>
    /\ Noted(op, id, arg, out.ret, {})

\* A query call: the IC discards any state change of a query.
Query(limit, op, id, ret) ==
    /\ Called(limit, op, id, Unit, ret)
    /\ UNCHANGED stores
    /\ UNCHANGED history

\* ------------------------------------------------------------------ calls
AddProductCall(limit, payload) ==
    LET out == add_product(payload)
        id == allocated_id(ID_COUNTER)
    IN  /\ out.ret.ok => ID_COUNTER < MaxFarmers
        /\ Called(limit, "add_product", id, payload, out.ret)
        /\ ID_COUNTER' = out.counter
        /\ FARMERS_STORAGE' = out.farmers
        /\ UNCHANGED PRODUCTS_STORAGE
        /\ IF out.ret.ok
           THEN /\ created' = Insert(created, id, payload)
                /\ succeeded' = Insert(succeeded, id, {})
                /\ escrow_added' = Insert(escrow_added, id, 0)
                /\ round_trip' =
                    Insert(round_trip, id,
                           IF payload.price = 100 THEN "created" ELSE "off")
                /\ UNCHANGED product_inserts
           ELSE UNCHANGED history

ProductBidCall(limit, farmer_id, consumer_address) ==
    LET payload == [farmer_id |-> farmer_id, consumer_address |-> consumer_address]
    IN  Update(limit, "product_bid", farmer_id, consumer_address, product_bid(payload))

AcceptBidCall(limit, farmer_id) ==
    Update(limit, "accept_bid", farmer_id, Unit, accept_bid(farmer_id))

MarkProductSoldCall(limit, farmer_id, consumer_address) ==
    LET payload == [farmer_id |-> farmer_id, consumer_address |-> consumer_address]
    IN  Update(limit, "mark_product_sold", farmer_id, Unit, mark_product_sold(payload))

DisputeProductCall(limit, farmer_id) ==
    Update(limit, "dispute_product", farmer_id, Unit, dispute_product(farmer_id))

ResolveDisputeCall(limit, farmer_id, resolution) ==
    Update(limit, "resolve_dispute", farmer_id, resolution,
           resolve_dispute(farmer_id, resolution))

ReleasePaymentCall(limit, farmer_id) ==
    LET out == release_payment(farmer_id)
    IN  /\ Called(limit, "release_payment", farmer_id, Unit, out.ret)
        /\ FARMERS_STORAGE' = out.farmers
        /\ PRODUCTS_STORAGE' = out.products
        /\ UNCHANGED ID_COUNTER
        /\ Noted("release_payment", farmer_id, Unit, out.ret, out.inserted)

AddToEscrowCall(limit, farmer_id, amount) ==
    \E out \in add_to_escrow(farmer_id, amount) :
        Update(limit, "add_to_escrow", farmer_id, amount, out)

WithdrawFromEscrowCall(limit, farmer_id, amount) ==
    LET payload == [farmer_id |-> farmer_id, amount |-> amount]
    IN  Update(limit, "withdraw_from_escrow", farmer_id, amount,
               withdraw_from_escrow(payload))

\* ------------------------------------------------------------------ Spec: every entry point
AddProduct == \E payload \in FarmerPayloads : AddProductCall(MaxCalls, payload)

ProductBid ==
    \E farmer_id \in FarmerIds, consumer_address \in ConsumerAddresses :
        ProductBidCall(MaxCalls, farmer_id, consumer_address)

AcceptBid == \E farmer_id \in FarmerIds : AcceptBidCall(MaxCalls, farmer_id)

MarkProductSold ==
    \E farmer_id \in FarmerIds, consumer_address \in ConsumerAddresses :
        MarkProductSoldCall(MaxCalls, farmer_id, consumer_address)

DisputeProduct == \E farmer_id \in FarmerIds : DisputeProductCall(MaxCalls, farmer_id)

ResolveDispute ==
    \E farmer_id \in FarmerIds, resolution \in BOOLEAN :
        ResolveDisputeCall(MaxCalls, farmer_id, resolution)

ReleasePayment == \E farmer_id \in FarmerIds : ReleasePaymentCall(MaxCalls, farmer_id)

AddToEscrow ==
    \E farmer_id \in FarmerIds, amount \in Amounts :
        AddToEscrowCall(MaxCalls, farmer_id, amount)

WithdrawFromEscrow ==
    \E farmer_id \in FarmerIds, amount \in Amounts :
        WithdrawFromEscrowCall(MaxCalls, farmer_id, amount)

UpdateProductCategory ==
    \E farmer_id \in FarmerIds, category \in Categories :
        Update(MaxCalls, "update_product_category", farmer_id, category,
               update_product_category(farmer_id, category))

UpdateProductDescription ==
    \E farmer_id \in FarmerIds, bio \in Bios :
        Update(MaxCalls, "update_product_description", farmer_id, bio,
               update_product_description(farmer_id, bio))

UpdateProductPrice ==
    \E farmer_id \in FarmerIds, price \in Prices :
        Update(MaxCalls, "update_product_price", farmer_id, price,
               update_product_price(farmer_id, price))

UpdateProductStatus ==
    \E farmer_id \in FarmerIds, status \in Statuses :
        Update(MaxCalls, "update_product_status", farmer_id, status,
               update_product_status(farmer_id, status))

RateFarmer ==
    \E farmer_id \in FarmerIds, rating \in Ratings :
        Update(MaxCalls, "rate_farmer", farmer_id, rating, rate_farmer(farmer_id, rating))

GetProductDescription ==
    \E farmer_id \in FarmerIds :
        Query(MaxCalls, "get_product_description", farmer_id,
              get_product_description(farmer_id))

GetProductPrice ==
    \E farmer_id \in FarmerIds :
        Query(MaxCalls, "get_product_price", farmer_id, get_product_price(farmer_id))

GetProductStatus ==
    \E farmer_id \in FarmerIds :
        Query(MaxCalls, "get_product_status", farmer_id, get_product_status(farmer_id))

Next ==
    \/ AddProduct
    \/ ProductBid
    \/ AcceptBid
    \/ MarkProductSold
    \/ DisputeProduct
    \/ ResolveDispute
    \/ ReleasePayment
    \/ AddToEscrow
    \/ WithdrawFromEscrow
    \/ UpdateProductCategory
    \/ UpdateProductDescription
    \/ UpdateProductPrice
    \/ UpdateProductStatus
    \/ RateFarmer
    \/ GetProductDescription
    \/ GetProductPrice
    \/ GetProductStatus

Spec == Init /\ [][Next]_vars

\* ------------------------------------------------------------------ SettlementSpec: the sale
\* The entry points a sale goes through, followed further than Spec follows
\* all of them.
SettlementConsumers == {"alice", "bob"}
SettlementAmounts == {100, U64_MAX}

ListProduct ==
    \E payload \in {ValidPayload1, ValidPayload2} :
        AddProductCall(MaxSettlementCalls, payload)

PlaceBid ==
    \E farmer_id \in FarmerIds, consumer_address \in SettlementConsumers :
        ProductBidCall(MaxSettlementCalls, farmer_id, consumer_address)

Accept == \E farmer_id \in FarmerIds : AcceptBidCall(MaxSettlementCalls, farmer_id)

MarkSold ==
    \E farmer_id \in FarmerIds :
        MarkProductSoldCall(MaxSettlementCalls, farmer_id, "alice")

RaiseDispute ==
    \E farmer_id \in FarmerIds : DisputeProductCall(MaxSettlementCalls, farmer_id)

Resolve ==
    \E farmer_id \in FarmerIds, resolution \in BOOLEAN :
        ResolveDisputeCall(MaxSettlementCalls, farmer_id, resolution)

Release == \E farmer_id \in FarmerIds : ReleasePaymentCall(MaxSettlementCalls, farmer_id)

Fund ==
    \E farmer_id \in FarmerIds, amount \in SettlementAmounts :
        AddToEscrowCall(MaxSettlementCalls, farmer_id, amount)

Withdraw ==
    \E farmer_id \in FarmerIds, amount \in SettlementAmounts :
        WithdrawFromEscrowCall(MaxSettlementCalls, farmer_id, amount)

SettlementNext ==
    \/ ListProduct
    \/ PlaceBid
    \/ Accept
    \/ MarkSold
    \/ RaiseDispute
    \/ Resolve
    \/ Release
    \/ Fund
    \/ Withdraw

SettlementSpec == Init /\ [][SettlementNext]_vars

\* ------------------------------------------------------------------ LifecycleSpec: one bidder
\* Every entry point again, with one bidder and one escrow amount, followed
\* one call further than Spec.
LifecycleConsumers == {"alice"}
LifecycleAmounts == {100}

AddProductStep ==
    \E payload \in {ValidPayload1, ValidPayload2} :
        AddProductCall(MaxLifecycleCalls, payload)

ProductBidStep ==
    \E farmer_id \in FarmerIds, consumer_address \in LifecycleConsumers :
        ProductBidCall(MaxLifecycleCalls, farmer_id, consumer_address)

AcceptBidStep == \E farmer_id \in FarmerIds : AcceptBidCall(MaxLifecycleCalls, farmer_id)

MarkProductSoldStep ==
    \E farmer_id \in FarmerIds, consumer_address \in LifecycleConsumers :
        MarkProductSoldCall(MaxLifecycleCalls, farmer_id, consumer_address)

DisputeProductStep ==
    \E farmer_id \in FarmerIds : DisputeProductCall(MaxLifecycleCalls, farmer_id)

ResolveDisputeStep ==
    \E farmer_id \in FarmerIds, resolution \in BOOLEAN :
        ResolveDisputeCall(MaxLifecycleCalls, farmer_id, resolution)

ReleasePaymentStep ==
    \E farmer_id \in FarmerIds : ReleasePaymentCall(MaxLifecycleCalls, farmer_id)

AddToEscrowStep ==
    \E farmer_id \in FarmerIds, amount \in LifecycleAmounts :
        AddToEscrowCall(MaxLifecycleCalls, farmer_id, amount)

WithdrawFromEscrowStep ==
    \E farmer_id \in FarmerIds, amount \in LifecycleAmounts :
        WithdrawFromEscrowCall(MaxLifecycleCalls, farmer_id, amount)

UpdateProductCategoryStep ==
    \E farmer_id \in FarmerIds, category \in Categories :
        Update(MaxLifecycleCalls, "update_product_category", farmer_id, category,
               update_product_category(farmer_id, category))

UpdateProductDescriptionStep ==
    \E farmer_id \in FarmerIds, bio \in Bios :
        Update(MaxLifecycleCalls, "update_product_description", farmer_id, bio,
               update_product_description(farmer_id, bio))

UpdateProductPriceStep ==
    \E farmer_id \in FarmerIds, price \in Prices :
        Update(MaxLifecycleCalls, "update_product_price", farmer_id, price,
               update_product_price(farmer_id, price))

UpdateProductStatusStep ==
    \E farmer_id \in FarmerIds, status \in Statuses :
        Update(MaxLifecycleCalls, "update_product_status", farmer_id, status,
               update_product_status(farmer_id, status))

RateFarmerStep ==
    \E farmer_id \in FarmerIds, rating \in Ratings :
        Update(MaxLifecycleCalls, "rate_farmer", farmer_id, rating,
               rate_farmer(farmer_id, rating))

GetProductDescriptionStep ==
    \E farmer_id \in FarmerIds :
        Query(MaxLifecycleCalls, "get_product_description", farmer_id,
              get_product_description(farmer_id))

GetProductPriceStep ==
    \E farmer_id \in FarmerIds :
        Query(MaxLifecycleCalls, "get_product_price", farmer_id,
              get_product_price(farmer_id))

GetProductStatusStep ==
    \E farmer_id \in FarmerIds :
        Query(MaxLifecycleCalls, "get_product_status", farmer_id,
              get_product_status(farmer_id))

LifecycleNext ==
    \/ AddProductStep
    \/ ProductBidStep
    \/ AcceptBidStep
    \/ MarkProductSoldStep
    \/ DisputeProductStep
    \/ ResolveDisputeStep
    \/ ReleasePaymentStep
    \/ AddToEscrowStep
    \/ WithdrawFromEscrowStep
    \/ UpdateProductCategoryStep
    \/ UpdateProductDescriptionStep
    \/ UpdateProductPriceStep
    \/ UpdateProductStatusStep
    \/ RateFarmerStep
    \/ GetProductDescriptionStep
    \/ GetProductPriceStep
    \/ GetProductStatusStep

LifecycleSpec == Init /\ [][LifecycleNext]_vars

\* ------------------------------------------------------------------ properties
\* The step is a call of entry point op; result' holds its arguments and
\* return value, the unprimed variables the state it ran in.
Call(op) == calls' = calls + 1 /\ result'.op = op
Exists(id) == id \in DOMAIN FARMERS_STORAGE
ArchiveUntouched ==
    PRODUCTS_STORAGE' = PRODUCTS_STORAGE /\ product_inserts' = product_inserts

\* C1: release_payment(id) returns Ok only if mark_product_sold returned Ok
\* on the farmer earlier and its dispute_status is false at the call; in
\* every other case it returns an error and writes nothing to
\* PRODUCTS_STORAGE.
ReleaseAllowed(id) ==
    /\ Exists(id)
    /\ "mark_product_sold" \in succeeded[id]
    /\ ~FARMERS_STORAGE[id].dispute_status
ReleaseOnlyAfterSaleWithoutDispute ==
    [][Call("release_payment") =>
          /\ result'.ret.ok => ReleaseAllowed(result'.id)
          /\ ~ReleaseAllowed(result'.id) => ~result'.ret.ok /\ ArchiveUntouched]_vars
ReleasedAfterResolvedDispute ==
    /\ result.op = "release_payment"
    /\ result.ret.ok
    /\ "resolve_dispute" \in succeeded[result.id]
    /\ result.id \in DOMAIN PRODUCTS_STORAGE

\* C2: for every farmer id at most one release_payment call inserts a
\* record into PRODUCTS_STORAGE.
ArchivedAtMostOnce ==
    \A id \in DOMAIN product_inserts : product_inserts[id] <= 1

\* C3: on a farmer created with price 100, product_bid("alice"), accept_bid,
\* mark_product_sold, add_to_escrow(100), release_payment each return Ok, and
\* afterwards PRODUCTS_STORAGE holds exactly one record of that farmer, under
\* its id, with that id and the farmer's address.
RoundTripSettles ==
    \A id \in DOMAIN round_trip :
        /\ round_trip[id] # "failed"
        /\ round_trip[id] = "released" =>
              /\ {k \in DOMAIN PRODUCTS_STORAGE :
                      k = id \/ PRODUCTS_STORAGE[k].id = id} = {id}
              /\ PRODUCTS_STORAGE[id].id = id
              /\ FARMERS_STORAGE[id].id = id
              /\ PRODUCTS_STORAGE[id].farmer_address = FARMERS_STORAGE[id].address
              /\ PRODUCTS_STORAGE[id].farmer_address = created[id].address
              /\ product_inserts[id] = 1
RoundTripDone == \E id \in DOMAIN round_trip : round_trip[id] = "released"

\* C4 as claimed: product_bid on a farmer that has a consumer_address returns
\* "Product already has a bid placed" for every consumer address, the empty
\* one included, and leaves the farmer unchanged.
HasBid(id) == Exists(id) /\ FARMERS_STORAGE[id].consumer_address # None
SecondBidAlwaysAlreadyBid ==
    [][Call("product_bid") /\ HasBid(result'.id) =>
          /\ result'.ret = Err("Product already has a bid placed")
          /\ FARMERS_STORAGE' = FARMERS_STORAGE]_vars
\* C4 amended: the error is "Product already has a bid placed" for a
\* non-empty consumer address and the address validation error for the empty
\* one; in both cases the farmer, its consumer_address included, is unchanged.
SecondBidRefused ==
    [][Call("product_bid") /\ HasBid(result'.id) =>
          /\ result'.ret =
                IF result'.arg = ""
                THEN Err("Consumer address must be provided and non-empty")
                ELSE Err("Product already has a bid placed")
          /\ FARMERS_STORAGE' = FARMERS_STORAGE]_vars
OtherConsumerRefused ==
    /\ result.op = "product_bid"
    /\ result.ret = Err("Product already has a bid placed")
    /\ HasBid(result.id)
    /\ FARMERS_STORAGE[result.id].consumer_address # Some(result.arg)

\* C5 as claimed: every entry point that takes a farmer id, called with an
\* id that is no key of FARMERS_STORAGE, returns "Farmer not found" whatever
\* its other arguments, and leaves the three stores unchanged.
IdAddressed ==
    {"get_product_description", "get_product_price", "get_product_status",
     "product_bid", "accept_bid", "mark_product_sold", "dispute_product",
     "resolve_dispute", "release_payment", "add_to_escrow", "withdraw_from_escrow",
     "update_product_category", "update_product_description",
     "update_product_price", "update_product_status", "rate_farmer"}
UnknownIdCall ==
    /\ calls' = calls + 1
    /\ result'.op \in IdAddressed
    /\ ~Exists(result'.id)
UnknownIdAlwaysNotFound ==
    [][UnknownIdCall => result'.ret = NotFound /\ UNCHANGED stores]_vars
\* C5 amended: the same, except that product_bid with an empty consumer
\* address returns its validation error instead; the stores are unchanged in
\* every case.
UnknownIdRefused ==
    [][UnknownIdCall =>
          /\ result'.ret =
                IF result'.op = "product_bid" /\ result'.arg = ""
                THEN Err("Consumer address must be provided and non-empty")
                ELSE NotFound
          /\ UNCHANGED stores]_vars
UnknownIdAfterListing ==
    /\ result.op = "accept_bid"
    /\ result.ret = NotFound
    /\ ~Exists(result.id)
    /\ FARMERS_STORAGE # Empty

\* C6: escrow_balance of every farmer stays within 0 and the sum of the
\* amounts of the add_to_escrow calls that returned Ok on it;
\* withdraw_from_escrow with an amount above the balance returns
\* "Insufficient funds in escrow" and leaves the balance, and one that
\* returns Ok lowers the balance by exactly the amount.
EscrowWithinAdded ==
    \A id \in DOMAIN FARMERS_STORAGE :
        /\ FARMERS_STORAGE[id].escrow_balance >= 0
        /\ FARMERS_STORAGE[id].escrow_balance <= escrow_added[id]
WithdrawStep ==
    Call("withdraw_from_escrow") /\ Exists(result'.id) =>
        LET balance == FARMERS_STORAGE[result'.id].escrow_balance
            balance_after == FARMERS_STORAGE'[result'.id].escrow_balance
        IN  /\ result'.arg > balance =>
                /\ result'.ret = Err("Insufficient funds in escrow")
                /\ balance_after = balance
            /\ result'.ret.ok => balance_after = balance - result'.arg
EscrowBounded == []EscrowWithinAdded /\ [][WithdrawStep]_vars
WithdrawnAfterFunding ==
    /\ result.op = "withdraw_from_escrow"
    /\ result.ret.ok
    /\ result.arg = 100
    /\ FARMERS_STORAGE[result.id].escrow_balance + 100 <= escrow_added[result.id]

\* C7: resolve_dispute on a farmer whose dispute_status is false returns
\* "No active dispute to resolve" for either resolution and leaves the
\* farmer, dispute_status and product_status included, unchanged.
ResolveWithoutDisputeRefused ==
    [][/\ Call("resolve_dispute")
       /\ Exists(result'.id)
       /\ ~FARMERS_STORAGE[result'.id].dispute_status
       => /\ result'.ret = Err("No active dispute to resolve")
          /\ FARMERS_STORAGE' = FARMERS_STORAGE]_vars
ResolvedTwice ==
    /\ result.op = "resolve_dispute"
    /\ result.ret = Err("No active dispute to resolve")
    /\ Exists(result.id)
    /\ "resolve_dispute" \in succeeded[result.id]

\* C8: a call that returns an error leaves the id counter, FARMERS_STORAGE
\* and PRODUCTS_STORAGE exactly as they were.
ErrorLeavesStores ==
    [][calls' = calls + 1 /\ ~result'.ret.ok => UNCHANGED stores]_vars
RefusedWithdrawal ==
    /\ result.op = "withdraw_from_escrow"
    /\ result.ret = Err("Insufficient funds in escrow")
    /\ Exists(result.id)

\* C9 as claimed: for every created farmer the three queries return the
\* price, bio and product_status of the creation payload as long as
\* update_product_price, update_product_description, update_product_status
\* respectively has not returned Ok on it.
PriceAndBioAsCreated(id) ==
    /\ "update_product_price" \notin succeeded[id] =>
          get_product_price(id) = Ok(created[id].price)
    /\ "update_product_description" \notin succeeded[id] =>
          get_product_description(id) = Ok(created[id].bio)
QueriesAsCreatedUntilUpdated ==
    \A id \in DOMAIN created :
        /\ PriceAndBioAsCreated(id)
        /\ "update_product_status" \notin succeeded[id] =>
              get_product_status(id) = Ok(created[id].product_status)
\* C9 amended: price and bio as claimed; product_status is the created one
\* as long as none of update_product_status, product_bid, accept_bid,
\* mark_product_sold, dispute_product, resolve_dispute has returned Ok on the
\* farmer.
StatusWriters ==
    {"update_product_status", "product_bid", "accept_bid", "mark_product_sold",
     "dispute_product", "resolve_dispute"}
QueriesAsCreatedUntilWritten ==
    \A id \in DOMAIN created :
        /\ PriceAndBioAsCreated(id)
        /\ succeeded[id] \cap StatusWriters = {} =>
              get_product_status(id) = Ok(created[id].product_status)
StatusReadAfterOtherCalls ==
    /\ result.op = "get_product_status"
    /\ result.id \in DOMAIN created
    /\ result.ret = Ok(created[result.id].product_status)
    /\ succeeded[result.id] # {}

\* C10: the id of every add_product that returns Ok is greater than every id
\* issued before and is no key of FARMERS_STORAGE, so no farmer is
\* overwritten; and every farmer stored under key k has id k.
IdsMatchKeys == \A k \in DOMAIN FARMERS_STORAGE : FARMERS_STORAGE[k].id = k
CreateStep ==
    Call("add_product") /\ result'.ret.ok =>
        LET id == result'.ret.val.id IN
        /\ \A issued \in DOMAIN created : issued < id
        /\ id \notin DOMAIN FARMERS_STORAGE
        /\ DOMAIN FARMERS_STORAGE' = DOMAIN FARMERS_STORAGE \cup {id}
        /\ \A k \in DOMAIN FARMERS_STORAGE : FARMERS_STORAGE'[k] = FARMERS_STORAGE[k]
IdsUniqueAndIncreasing == []IdsMatchKeys /\ [][CreateStep]_vars
SecondFarmerListed ==
    /\ result.op = "add_product"
    /\ result.ret.ok
    /\ Cardinality(DOMAIN FARMERS_STORAGE) = 2
    /\ result.ret.val.id \in DOMAIN FARMERS_STORAGE

\* C11: the first add_product that returns Ok on an empty canister returns
\* id 1, and no farmer is ever stored under id 0.
FirstIdIsOne ==
    /\ 0 \notin DOMAIN FARMERS_STORAGE
    /\ result.op = "add_product" /\ result.ret.ok /\ Cardinality(DOMAIN created) = 1
          => result.ret.val.id = 1

\* C12 as claimed: add_product returns Ok for every payload, those with an
\* empty text field included, and stores a new farmer under a fresh id with
\* escrow_balance 0, dispute_status false, is_sold false and no
\* consumer_address.
StoredFresh(farmer) ==
    /\ farmer.id \notin DOMAIN FARMERS_STORAGE
    /\ farmer.id \in DOMAIN FARMERS_STORAGE'
    /\ FARMERS_STORAGE'[farmer.id] = farmer
    /\ farmer.escrow_balance = 0
    /\ farmer.dispute_status = FALSE
    /\ farmer.is_sold = FALSE
    /\ farmer.consumer_address = None
AddProductAlwaysStores ==
    [][Call("add_product") => result'.ret.ok /\ StoredFresh(result'.ret.val)]_vars
\* C12 amended: that holds for every payload whose address, name, bio,
\* category and product_status are all non-empty; a payload with one of them
\* empty is refused with the validation error and nothing is allocated or
\* stored.
HasEmptyText(payload) == \E f \in TextFields : payload[f] = ""
AddProductStoresValid ==
    [][Call("add_product") =>
          IF HasEmptyText(result'.arg)
          THEN /\ result'.ret = Err("All fields must be provided and non-empty")
               /\ UNCHANGED stores
          ELSE /\ result'.ret.ok
               /\ StoredFresh(result'.ret.val)
               /\ result'.ret.val.address = result'.arg.address
               /\ result'.ret.val.price = result'.arg.price]_vars
ValidPayloadListed ==
    /\ result.op = "add_product"
    /\ result.ret.ok
    /\ ~HasEmptyText(result.arg)
    /\ FARMERS_STORAGE[result.ret.val.id] = result.ret.val
    /\ result.ret.val.escrow_balance = 0

\* C13: add_to_escrow whose sum passes the maximum of the balance type
\* reports an error, does not wrap, and leaves the stored balance unchanged.
AddOverflowReported ==
    [][/\ Call("add_to_escrow")
       /\ Exists(result'.id)
       /\ FARMERS_STORAGE[result'.id].escrow_balance + result'.arg > U64_MAX
       => /\ ~result'.ret.ok
          /\ FARMERS_STORAGE' = FARMERS_STORAGE]_vars

\* C14 as claimed: mark_product_sold returns Ok on a farmer only if
\* accept_bid returned Ok on it before.
SoldOnlyAfterAccept ==
    [][Call("mark_product_sold") /\ result'.ret.ok =>
          Exists(result'.id) /\ "accept_bid" \in succeeded[result'.id]]_vars
\* C14 amended: mark_product_sold returns Ok on a farmer only if product_bid
\* returned Ok on it before (its consumer_address is present); an accept_bid
\* is not needed.  is_sold is true only on farmers with a successful bid.
SoldFarmersHaveBid ==
    \A id \in DOMAIN FARMERS_STORAGE :
        FARMERS_STORAGE[id].is_sold => "product_bid" \in succeeded[id]
SoldStep ==
    Call("mark_product_sold") /\ result'.ret.ok =>
        /\ Exists(result'.id)
        /\ "product_bid" \in succeeded[result'.id]
        /\ FARMERS_STORAGE[result'.id].consumer_address # None
SoldOnlyAfterBid == []SoldFarmersHaveBid /\ [][SoldStep]_vars
SoldWithoutAccept ==
    /\ result.op = "mark_product_sold"
    /\ result.ret.ok
    /\ "accept_bid" \notin succeeded[result.id]
    /\ FARMERS_STORAGE[result.id].is_sold

\* C15: in every state dispute_status is true exactly when product_status is
\* "Dispute Raised", product_status "Product Sold" implies is_sold, and
\* product_status "Bid Placed" or "Bid Accepted" implies a consumer_address
\* and is_sold false.
StatusInSync ==
    \A id \in DOMAIN FARMERS_STORAGE :
        LET farmer == FARMERS_STORAGE[id] IN
        /\ farmer.dispute_status <=> farmer.product_status = "Dispute Raised"
        /\ farmer.product_status = "Product Sold" => farmer.is_sold
        /\ farmer.product_status \in {"Bid Placed", "Bid Accepted"} =>
              farmer.consumer_address # None /\ ~farmer.is_sold

SoldHaveConsumer ==
    \A id \in DOMAIN FARMERS_STORAGE :
        FARMERS_STORAGE[id].is_sold => FARMERS_STORAGE[id].consumer_address # None
SoldStays ==
    \A id \in DOMAIN FARMERS_STORAGE :
        FARMERS_STORAGE[id].is_sold =>
            id \in DOMAIN FARMERS_STORAGE' /\ FARMERS_STORAGE'[id].is_sold
IsSoldNeverCleared == []SoldHaveConsumer /\ [][SoldStays]_vars
SoldAfterResolution ==
    /\ result.op = "resolve_dispute"
    /\ result.ret.ok
    /\ FARMERS_STORAGE[result.id].is_sold
    /\ "mark_product_sold" \in succeeded[result.id]

\* C18: every PRODUCTS_STORAGE entry under key k has id k and the address of
\* the farmer stored under k, and that farmer has is_sold true;
\* PRODUCTS_STORAGE is written by a successful release_payment only and no
\* entry is removed.
ArchiveOfSettled ==
    \A k \in DOMAIN PRODUCTS_STORAGE :
        /\ k \in DOMAIN FARMERS_STORAGE
        /\ FARMERS_STORAGE[k].is_sold
        /\ PRODUCTS_STORAGE[k].id = k
        /\ PRODUCTS_STORAGE[k].farmer_address = FARMERS_STORAGE[k].address
ArchiveStep ==
    /\ DOMAIN PRODUCTS_STORAGE \subseteq DOMAIN PRODUCTS_STORAGE'
    /\ PRODUCTS_STORAGE' # PRODUCTS_STORAGE \/ product_inserts' # product_inserts =>
          Call("release_payment") /\ result'.ret.ok
ArchiveHoldsSettledSales == []ArchiveOfSettled /\ [][ArchiveStep]_vars
DisputeOnArchived ==
    /\ result.op = "dispute_product"
    /\ result.ret.ok
    /\ result.id \in DOMAIN PRODUCTS_STORAGE
    /\ FARMERS_STORAGE[result.id].dispute_status

\* C19: a farmer's escrow_balance changes only in an add_to_escrow,
\* withdraw_from_escrow or release_payment call on that farmer's id, and a
\* successful release_payment leaves it 0 whatever balance and price were.
EscrowWriters == {"add_to_escrow", "withdraw_from_escrow", "release_payment"}
EscrowFrame ==
    \A id \in DOMAIN FARMERS_STORAGE :
        FARMERS_STORAGE'[id].escrow_balance # FARMERS_STORAGE[id].escrow_balance =>
            /\ calls' = calls + 1
            /\ result'.op \in EscrowWriters
            /\ result'.id = id
            /\ result'.ret.ok
ReleaseZeroes ==
    Call("release_payment") /\ result'.ret.ok =>
        FARMERS_STORAGE'[result'.id].escrow_balance = 0
EscrowChangedByEscrowCallsOnly == [][EscrowFrame /\ ReleaseZeroes]_vars
FundedEscrowReleased ==
    /\ result.op = "release_payment"
    /\ result.ret.ok
    /\ escrow_added[result.id] > 0
    /\ "withdraw_from_escrow" \notin succeeded[result.id]
    /\ escrow_added[result.id] # FARMERS_STORAGE[result.id].price
    /\ FARMERS_STORAGE[result.id].escrow_balance = 0

\* C20: release_payment on a stored farmer returns Ok exactly when is_sold is
\* true and dispute_status is false, whichever way a dispute was resolved,
\* and then the escrow_balance is 0 and the record under the farmer's id
\* carries the farmer's address.
ReleaseStep ==
    Call("release_payment") /\ Exists(result'.id) =>
        LET farmer == FARMERS_STORAGE[result'.id] IN
        /\ result'.ret.ok <=> (farmer.is_sold /\ ~farmer.dispute_status)
        /\ result'.ret.ok =>
              /\ FARMERS_STORAGE'[result'.id] = [farmer EXCEPT !.escrow_balance = 0]
              /\ result'.id \in DOMAIN PRODUCTS_STORAGE'
              /\ PRODUCTS_STORAGE'[result'.id]
                    = [id |-> result'.id, farmer_address |-> farmer.address]
ReleaseIgnoresOutcome == [][ReleaseStep]_vars
ReleasedAfterConsumerWon ==
    /\ result.op = "release_payment"
    /\ result.ret.ok
    /\ FARMERS_STORAGE[result.id].product_status
          = "Dispute Resolved - Funds to Consumer"
    /\ result.id \in DOMAIN PRODUCTS_STORAGE

====
